---- MODULE Spec2Model ----
(***************************************************************************)
(* Storage layer of the task tracker in its three variants:                *)
(*   TaskManager.py        key from the environment, SHA-256 hash file,    *)
(*                         timestamped backups in backups/                 *)
(*   tracker_Encryption.py key file, single rolling backup tasks.json.bak  *)
(*   tracker_Log.py        as tracker_Encryption.py, with logging          *)
(* The file system is the record fs; every function of the source is an    *)
(* operator from a file system to a result record holding the file system  *)
(* it leaves behind, the exception it raised (err) and its return value.   *)
(***************************************************************************)
EXTENDS Integers, Sequences, FiniteSets, TLC

VARIABLES
  variant,         \* which of the three source files is running
  ENCRYPTION_KEY,  \* the environment binding ("" when unset or empty)
  fs,              \* the files: FILE, HASH_FILE, KEY_FILE, FILE.bak, backups/
  clock,           \* wall-clock time in seconds
  last,            \* the last storage operation, its argument and outcome
  saved,           \* the store bytes each completed save_tasks call wrote
                   \* (kept for calls made through the storage functions)
  calls,           \* number of save_tasks calls so far
  pc,              \* "api": storage functions called directly; else the
                   \* menu's position: main, choice, ask_id, ask_value,
                   \* exited, crashed
  upd              \* the update in progress: kind, the list loaded by
                   \* get_valid_task_id, the id it returned, the parity
                   \* of the prompt loop's iteration

vars == <<variant, ENCRYPTION_KEY, fs, clock, last, saved, calls, pc, upd>>

\* ---------------------------------------------------------------- bounds
\* Calls of save_tasks in one behaviour.
MaxSaves == 3
\* Seconds the wall clock can advance (the backup names have 1 s resolution).
MaxClock == 2
\* Tasks the menu lets the user add in one behaviour.
MaxTasks == 2

\* ---------------------------------------------------------------- values
Variants == {"TaskManager", "tracker_Encryption", "tracker_Log"}

\* A path that does not exist, and a file of zero bytes.
Absent == [kind |-> "absent"]
Empty == [kind |-> "empty"]

Statuses == {"not done", "in progress", "done"}

Task(i, t, d, s) == [id |-> i, title |-> t, description |-> d, status |-> s]

T1 == Task(1, "A", "d", "not done")
T2 == Task(2, "B", "d", "done")

\* Collections handed to save_tasks directly: empty, one task, two tasks in
\* both orders, and one with a repeated id.
Collections == {<<>>, <<T1>>, <<T1, T2>>, <<T2, T1>>, <<T1, T1>>}

NoErr == "none"

\* Body applied to the value of v, v evaluated once (the call-by-value of the
\* source's local variables).
Let(v, Body(_)) == CHOOSE r \in {Body(x) : x \in {v}} : TRUE

\* ---------------------------------------------------------------- json
\* json.dumps of a list of task dicts: the array of objects, each object its
\* key/value pairs in the dict's insertion order.
json_dumps(tasks) ==
  [kind |-> "json",
   items |-> [i \in 1..Len(tasks) |->
                <<<<"id", tasks[i].id>>, <<"title", tasks[i].title>>,
                  <<"description", tasks[i].description>>,
                  <<"status", tasks[i].status>>>>]]

\* The value of key k in a parsed object (a sequence of pairs).
Member(obj, k) == (CHOOSE j \in 1..Len(obj) : obj[j][1] = k)

json_loads(data) ==
  [i \in 1..Len(data.items) |->
     LET o == data.items[i] IN
     Task(o[Member(o, "id")][2], o[Member(o, "title")][2],
          o[Member(o, "description")][2], o[Member(o, "status")][2])]

\* ---------------------------------------------------------------- hash
\* hashlib.sha256(data.encode()).hexdigest(): collision-free on the model's
\* plaintexts.
calculate_hash(data) == [kind |-> "sha256", of |-> data]

save_hash(f, hash_value) == [f EXCEPT !.HASH_FILE = hash_value]

\* verify_integrity with a missing hash file treated as a mismatch.
verify_integrity_strict(f, data) == f.HASH_FILE = calculate_hash(data)

\* verify_integrity: TRUE when no hash file exists, else digest equality.
verify_integrity(f, data) ==
  IF f.HASH_FILE = Absent THEN TRUE
  ELSE f.HASH_FILE = calculate_hash(data)

\* ---------------------------------------------------------------- keys
EnvBacked == variant = "TaskManager"

\* Initial values in every token, key and backup currently on disk or
\* remembered: Fernet draws a fresh random IV (and key) on each call, so a new
\* one differs from all of them.
TokensOf(f) ==
  {x \in ({f.FILE, f.BAK} \cup {b.bytes : b \in f.BACKUPS}
          \cup {saved[i] : i \in 1..Len(saved)}) : x.kind = "fernet"}

UsedIVs(f) == {x.iv : x \in TokensOf(f)}

FreshIV(f) ==
  Let(UsedIVs(f), LAMBDA used :
    CHOOSE n \in 1..(Cardinality(used) + 1) :
      n \notin used /\ \A m \in 1..(n - 1) : m \in used)

\* generate_key: Fernet.generate_key() written to KEY_FILE.
generate_key(f) ==
  [f EXCEPT !.KEY_FILE = [kind |-> "key", src |-> "generated"]]

\* load_key: the environment binding (TaskManager.py) or the key file,
\* generated when missing (tracker_Encryption.py, tracker_Log.py).
load_key(f) ==
  IF EnvBacked
  THEN IF ENCRYPTION_KEY = ""
       THEN [fs |-> f, err |-> "ValueError", key |-> Absent]
       ELSE [fs |-> f, err |-> NoErr,
             key |-> [kind |-> "key", src |-> ENCRYPTION_KEY]]
  ELSE Let(IF f.KEY_FILE = Absent THEN generate_key(f) ELSE f, LAMBDA g :
         [fs |-> g, err |-> NoErr, key |-> g.KEY_FILE])

\* ---------------------------------------------------------------- cipher
\* A Fernet token: the urlsafe-base64 text of version, IV, AES ciphertext of
\* pt under key k, and HMAC. flip names where one byte of the text differs
\* from what encrypt wrote ("none": untouched).
Token(k, iv, data) ==
  [kind |-> "fernet", k |-> k, iv |-> iv, pt |-> data, flip |-> "none"]

encrypt_data(f, data) ==
  Let(load_key(f), LAMBDA r :
    IF r.err # NoErr THEN [fs |-> r.fs, err |-> r.err, out |-> Absent]
    ELSE [fs |-> r.fs, err |-> NoErr,
          out |-> Token(r.key, FreshIV(r.fs), data)])

\* Fernet.decrypt: base64-decode, check the version byte, verify the HMAC
\* under the key, decrypt. A flipped byte that decodes to the same bytes
\* ("alias": the unused low bits of the last base64 digit before padding, or
\* '-' for '+', '_' for '/') leaves the token valid; any other flip fails
\* the decoding, the version check or the HMAC.
fernet_decrypt(key, token) ==
  IF token.kind # "fernet" THEN [err |-> "InvalidToken", out |-> Absent]
  ELSE IF token.flip \notin {"none", "alias"}
  THEN [err |-> "InvalidToken", out |-> Absent]
  ELSE IF token.k # key THEN [err |-> "InvalidToken", out |-> Absent]
  ELSE [err |-> NoErr, out |-> token.pt]

\* decrypt_data with the decryption failure swallowed: an unreadable token
\* is treated as an empty list.
decrypt_data_swallow(f, encrypted_data) ==
  Let(load_key(f), LAMBDA r :
    IF r.err # NoErr THEN [fs |-> r.fs, err |-> r.err, out |-> Absent]
    ELSE Let(fernet_decrypt(r.key, encrypted_data), LAMBDA d :
           IF d.err # NoErr
           THEN [fs |-> r.fs, err |-> NoErr, out |-> json_dumps(<<>>)]
           ELSE [fs |-> r.fs, err |-> d.err, out |-> d.out]))

decrypt_data(f, encrypted_data) ==
  Let(load_key(f), LAMBDA r :
    IF r.err # NoErr THEN [fs |-> r.fs, err |-> r.err, out |-> Absent]
    ELSE Let(fernet_decrypt(r.key, encrypted_data), LAMBDA d :
           [fs |-> r.fs, err |-> d.err, out |-> d.out]))

\* ---------------------------------------------------------------- store
\* secure_file_creation: open(filepath, 'wb') creates the file empty, then
\* the encrypted empty array is written into it.
secure_file_creation(f) ==
  IF f.FILE # Absent THEN [fs |-> f, err |-> NoErr]
  ELSE Let(encrypt_data([f EXCEPT !.FILE = Empty], json_dumps(<<>>)),
           LAMBDA e :
             IF e.err # NoErr THEN [fs |-> e.fs, err |-> e.err]
             ELSE [fs |-> [e.fs EXCEPT !.FILE = e.out], err |-> NoErr])

\* create_backup (TaskManager.py): makedirs, then shutil.copy of FILE to
\* backups/tasks_<timestamp>.json, the timestamp to the second.
create_backup(f) ==
  LET made == [f EXCEPT !.BACKUP_DIR = TRUE] IN
  IF f.FILE = Absent THEN [fs |-> made, err |-> "FileNotFoundError"]
  ELSE [fs |-> [made EXCEPT !.BACKUPS =
                  {b \in @ : b.name # clock}
                    \cup {[name |-> clock, bytes |-> f.FILE]}],
        err |-> NoErr]

\* backup_tasks_file that keeps the first backup: no copy once FILE + ".bak"
\* exists.
backup_tasks_file_once(f) ==
  IF f.FILE # Absent /\ f.BAK = Absent
  THEN [fs |-> [f EXCEPT !.BAK = f.FILE], err |-> NoErr]
  ELSE [fs |-> f, err |-> NoErr]

\* backup_tasks_file (tracker_Encryption.py, tracker_Log.py): copy FILE to
\* FILE + ".bak" when FILE exists.
backup_tasks_file(f) ==
  IF f.FILE # Absent THEN [fs |-> [f EXCEPT !.BAK = f.FILE], err |-> NoErr]
  ELSE [fs |-> f, err |-> NoErr]

\* load_tasks under the other mismatch policy: a digest mismatch raises
\* IntegrityError instead of returning the empty list.
load_tasks_fail_loudly(f) ==
  Let(secure_file_creation(f), LAMBDA c :
    IF c.err # NoErr THEN [fs |-> c.fs, err |-> c.err, ret |-> <<>>]
    ELSE IF c.fs.FILE = Empty THEN [fs |-> c.fs, err |-> NoErr, ret |-> <<>>]
    ELSE Let(decrypt_data(c.fs, c.fs.FILE), LAMBDA d :
           IF d.err # NoErr THEN [fs |-> d.fs, err |-> d.err, ret |-> <<>>]
           ELSE IF EnvBacked /\ ~verify_integrity(d.fs, d.out)
           THEN [fs |-> d.fs, err |-> "IntegrityError", ret |-> <<>>]
           ELSE [fs |-> d.fs, err |-> NoErr, ret |-> json_loads(d.out)]))

\* load_tasks
load_tasks(f) ==
  Let(secure_file_creation(f), LAMBDA c :
    IF c.err # NoErr THEN [fs |-> c.fs, err |-> c.err, ret |-> <<>>]
    ELSE IF c.fs.FILE = Empty THEN [fs |-> c.fs, err |-> NoErr, ret |-> <<>>]
    ELSE Let(decrypt_data(c.fs, c.fs.FILE), LAMBDA d :
           IF d.err # NoErr THEN [fs |-> d.fs, err |-> d.err, ret |-> <<>>]
           ELSE IF EnvBacked /\ ~verify_integrity(d.fs, d.out)
           THEN [fs |-> d.fs, err |-> NoErr, ret |-> <<>>]
           ELSE [fs |-> d.fs, err |-> NoErr, ret |-> json_loads(d.out)]))

\* An operating-system failure (OSError) injected into one step of a Save:
\* the backup copy, the key retrieval/encryption, the write into the opened
\* store file, or the write of the hash file. "none": no failure.
Faults == {"backup", "encrypt", "write", "hash"}

\* save_tasks of TaskManager.py: backup, dumps, encrypt, open and write, hash.
save_tasks_env(f, tasks, fault) ==
  Let(create_backup(f), LAMBDA b :
    IF b.err # NoErr THEN [fs |-> b.fs, err |-> b.err]
    ELSE IF fault = "backup"
    THEN [fs |-> [f EXCEPT !.BACKUP_DIR = TRUE], err |-> "OSError"]
    ELSE Let(json_dumps(tasks), LAMBDA data :
         Let(encrypt_data(b.fs, data), LAMBDA e :
           IF e.err # NoErr THEN [fs |-> e.fs, err |-> e.err]
           ELSE IF fault = "encrypt" THEN [fs |-> e.fs, err |-> "OSError"]
           ELSE IF fault = "write"
           THEN [fs |-> [e.fs EXCEPT !.FILE = Empty], err |-> "OSError"]
           ELSE IF fault = "hash"
           THEN [fs |-> [e.fs EXCEPT !.FILE = e.out], err |-> "OSError"]
           ELSE [fs |-> save_hash([e.fs EXCEPT !.FILE = e.out],
                                  calculate_hash(data)),
                 err |-> NoErr])))

\* save_tasks of tracker_Encryption.py and tracker_Log.py: backup, open for
\* writing (which truncates), then dumps, encrypt and write inside the with.
save_tasks_file(f, tasks, fault) ==
  IF fault = "backup" /\ f.FILE # Absent THEN [fs |-> f, err |-> "OSError"]
  ELSE Let(backup_tasks_file(f), LAMBDA b :
       Let([b.fs EXCEPT !.FILE = Empty], LAMBDA opened :
       Let(encrypt_data(opened, json_dumps(tasks)), LAMBDA e :
         IF e.err # NoErr THEN [fs |-> e.fs, err |-> e.err]
         ELSE IF fault \in {"encrypt", "write"}
         THEN [fs |-> opened, err |-> "OSError"]
         ELSE [fs |-> [e.fs EXCEPT !.FILE = e.out], err |-> NoErr])))

save_tasks_io(f, tasks, fault) ==
  IF EnvBacked THEN save_tasks_env(f, tasks, fault)
  ELSE save_tasks_file(f, tasks, fault)

\* save_tasks with every step succeeding at the operating-system level.
save_tasks(f, tasks) == save_tasks_io(f, tasks, "none")

\* ---------------------------------------------------------------- state
NoFiles ==
  [FILE |-> Absent, HASH_FILE |-> Absent, KEY_FILE |-> Absent, BAK |-> Absent,
   BACKUP_DIR |-> FALSE, BACKUPS |-> {}]

Op(o, a, e, r) == [op |-> o, arg |-> a, err |-> e, ret |-> r]

\* No update in progress. round is the parity of the number of inputs the
\* current prompt loop has rejected: each rejected input starts another
\* iteration of the while True loop.
NoUpd == [kind |-> "none", tasks |-> <<>>, task_id |-> 0, round |-> 0]

Init ==
  /\ variant \in Variants
  /\ ENCRYPTION_KEY \in (IF variant = "TaskManager" THEN {"", "k"} ELSE {""})
  /\ fs = NoFiles
  /\ clock = 0
  /\ last = Op("start", <<>>, NoErr, <<>>)
  /\ saved = <<>>
  /\ calls = 0
  /\ pc = "api"
  /\ upd = NoUpd

\* A call of load_tasks.
Load ==
  /\ pc = "api"
  /\ \E r \in {load_tasks(fs)} :
       /\ fs' = r.fs
       /\ last' = Op("load", <<>>, r.err, r.ret)
  /\ UNCHANGED <<variant, ENCRYPTION_KEY, clock, saved, calls, pc, upd>>

\* A call of save_tasks(C).
Save ==
  /\ pc = "api"
  /\ calls < MaxSaves
  /\ calls' = calls + 1
  /\ \E C \in Collections : \E r \in {save_tasks(fs, C)} :
       /\ fs' = r.fs
       /\ last' = Op("save", C, r.err, <<>>)
       /\ saved' = IF r.err = NoErr THEN Append(saved, r.fs.FILE) ELSE saved
  /\ UNCHANGED <<variant, ENCRYPTION_KEY, clock, pc, upd>>

\* The wall clock reaches the next second. Only create_backup reads the
\* clock, so it is part of the state of TaskManager.py alone.
Tick ==
  /\ EnvBacked
  /\ clock < MaxClock
  /\ clock' = clock + 1
  /\ UNCHANGED <<variant, ENCRYPTION_KEY, fs, last, saved, calls, pc, upd>>

Next == Load \/ Save \/ Tick

Spec == Init /\ [][Next]_vars

\* Where one byte of the stored token can be flipped from outside: a base64
\* digit changed to one that decodes to the same bytes ("alias"), a byte that
\* makes the text undecodable ("base64"), or a byte of the encoded version,
\* of the HMAC-covered body (timestamp, IV, ciphertext) or of the HMAC.
Flips == {"alias", "base64", "version", "ciphertext", "hmac"}

\* One byte of tasks.json is flipped from outside right after a completed Save.
Tamper ==
  /\ pc = "api"
  /\ last.op = "save" /\ last.err = NoErr
  /\ fs.FILE.kind = "fernet"
  /\ \A x \in TokensOf(fs) : x.flip = "none"
  /\ \E where \in Flips : fs' = [fs EXCEPT !.FILE.flip = where]
  /\ last' = Op("tamper", last.arg, NoErr, <<>>)
  /\ UNCHANGED <<variant, ENCRYPTION_KEY, clock, saved, calls, pc, upd>>

NextTamper == Load \/ Save \/ Tick \/ Tamper

SpecTamper == Init /\ [][NextTamper]_vars

\* A call of save_tasks(C) during which one step fails in the operating
\* system.
SaveFault ==
  /\ pc = "api"
  /\ calls < MaxSaves
  /\ calls' = calls + 1
  /\ \E C \in Collections, fault \in Faults :
     \E r \in {save_tasks_io(fs, C, fault)} :
       /\ fault = "hash" => EnvBacked
       /\ fs' = r.fs
       /\ last' = Op("save", C, r.err, <<>>)
       /\ saved' = IF r.err = NoErr THEN Append(saved, r.fs.FILE) ELSE saved
  /\ UNCHANGED <<variant, ENCRYPTION_KEY, clock, pc, upd>>

NextFault == Load \/ Save \/ Tick \/ SaveFault

SpecFault == Init /\ [][NextFault]_vars

\* ---------------------------------------------------------------- menu
\* What the user can type (after strip) at the prompts.
TitleInputs == {"", "A", "B"}
DescriptionInputs == {"", "d"}
StatusInputs == {"1", "2", "x"}
IdInputs == {"x"} \cup {ToString(n) : n \in 0..(MaxTasks + 1)}

\* int(s): defined on the numeric inputs, ValueError otherwise.
IsNumeric(s) == \E n \in 0..(MaxTasks + 1) : ToString(n) = s

int(s) == CHOOSE n \in 0..(MaxTasks + 1) : ToString(n) = s

\* The collection persisted in the store file (what decrypting it yields).
Persisted(f) ==
  IF f.FILE.kind = "fernet" THEN json_loads(f.FILE.pt) ELSE <<>>

InitCli ==
  /\ variant \in Variants
  /\ ENCRYPTION_KEY \in (IF variant = "TaskManager" THEN {"", "k"} ELSE {""})
  /\ fs = NoFiles
  /\ clock = 0
  /\ last = Op("start", <<>>, NoErr, <<>>)
  /\ saved = <<>>
  /\ calls = 0
  /\ pc = "main"
  /\ upd = NoUpd

\* After a call that returned or raised: an uncaught exception ends the
\* process with a traceback.
After(err, then) == IF err = NoErr THEN then ELSE "crashed"

\* main: the top of the menu loop calls display_tasks.
display_tasks ==
  /\ pc = "main"
  /\ \E r \in {load_tasks(fs)} :
       /\ fs' = r.fs
       /\ last' = Op("display", <<>>, r.err, r.ret)
       /\ pc' = After(r.err, "choice")
  /\ UNCHANGED <<variant, ENCRYPTION_KEY, clock, saved, calls, upd>>

\* new_task numbering from the list's length, without the + 1.
new_task_zero_based(tasks, title, description) ==
  Task(Len(tasks), title, description, "not done")

\* The task add_task builds for a loaded collection.
new_task(tasks, title, description) ==
  Task(Len(tasks) + 1, title, description, "not done")

\* add_task (choice 1): both prompts, then load, append, save.
add_task ==
  /\ pc = "choice"
  /\ \E title \in TitleInputs, description \in DescriptionInputs :
       IF title = "" \/ description = ""
       THEN /\ pc' = "main"
            /\ UNCHANGED <<fs, last, saved, calls>>
       ELSE \E l \in {load_tasks(fs)} :
            \E tasks \in {Append(l.ret, new_task(l.ret, title, description))} :
            \E s \in {save_tasks(l.fs, tasks)} :
               /\ calls < MaxSaves
               /\ Len(l.ret) < MaxTasks
               /\ IF l.err # NoErr
                  THEN /\ fs' = l.fs
                       /\ last' = Op("add", <<>>, l.err, <<>>)
                       /\ pc' = "crashed"
                       /\ UNCHANGED <<saved, calls>>
                  ELSE /\ fs' = s.fs
                       /\ last' = Op("add", tasks, s.err, l.ret)
                       /\ pc' = After(s.err, "main")
                       /\ calls' = calls + 1
                       /\ UNCHANGED saved
  /\ UNCHANGED <<variant, ENCRYPTION_KEY, clock, upd>>

\* get_valid_task_id, entered from choices 2, 3 and 4: loads the collection
\* once, before the prompt loop. An update is entered while the save it may
\* make is within the bound.
get_valid_task_id ==
  /\ pc = "choice"
  /\ calls < MaxSaves
  /\ \E kind \in {"status", "title", "description"} :
     \E r \in {load_tasks(fs)} :
       /\ fs' = r.fs
       /\ last' = Op("get_valid_task_id", <<>>, r.err, r.ret)
       /\ pc' = After(r.err, "ask_id")
       /\ upd' = IF r.err = NoErr
                 THEN [kind |-> kind, tasks |-> r.ret, task_id |-> 0,
                       round |-> 0]
                 ELSE NoUpd
  /\ UNCHANGED <<variant, ENCRYPTION_KEY, clock, saved, calls>>

\* One round of get_valid_task_id's prompt loop: a non-numeric or unknown id
\* prompts again, a known id is returned.
prompt_task_id ==
  /\ pc = "ask_id"
  /\ \E inp \in IdInputs :
       IF IsNumeric(inp)
          /\ \E i \in 1..Len(upd.tasks) : upd.tasks[i].id = int(inp)
       THEN /\ upd' = [upd EXCEPT !.task_id = int(inp), !.round = 0]
            /\ pc' = "ask_value"
            /\ UNCHANGED last
       ELSE /\ upd' = [upd EXCEPT !.round = 1 - @]
            /\ UNCHANGED <<pc, last>>
  /\ UNCHANGED <<variant, ENCRYPTION_KEY, fs, clock, saved, calls>>

\* The updates' loop without its id test: the field is set in every task.
update_loop_every_task(f, tasks, task_id, field, value) ==
  LET loop[i \in 0..Len(tasks)] ==
        IF i = 0
        THEN [fs |-> f, err |-> NoErr, tasks |-> tasks, saves |-> 0]
        ELSE Let(loop[i - 1], LAMBDA before :
               IF before.err # NoErr
               THEN before
               ELSE Let([before.tasks EXCEPT
                           ![i] = [@ EXCEPT ![field] = value]],
                        LAMBDA changed :
                    Let(save_tasks(before.fs, changed), LAMBDA s :
                      [fs |-> s.fs, err |-> s.err, tasks |-> changed,
                       saves |-> 1])))
  IN loop[Len(tasks)]

\* The loop shared by the three updates: for task in tasks, on a matching id
\* set the field and call save_tasks(tasks). loop[i] is the outcome after the
\* first i tasks: the file system, the exception if a save raised, the list
\* and the number of save_tasks calls made.
update_loop(f, tasks, task_id, field, value) ==
  LET loop[i \in 0..Len(tasks)] ==
        IF i = 0
        THEN [fs |-> f, err |-> NoErr, tasks |-> tasks, saves |-> 0]
        ELSE Let(loop[i - 1], LAMBDA before :
               IF before.err # NoErr \/ before.tasks[i].id # task_id
               THEN before
               ELSE Let([before.tasks EXCEPT
                           ![i] = [@ EXCEPT ![field] = value]],
                        LAMBDA changed :
                    Let(save_tasks(before.fs, changed), LAMBDA s :
                      [fs |-> s.fs, err |-> s.err, tasks |-> changed,
                       saves |-> before.saves + 1])))
  IN loop[Len(tasks)]

\* The part of an update after its prompts: load again, run the loop.
apply_update(field, value) ==
  \E l \in {load_tasks(fs)} :
  \E u \in {update_loop(l.fs, l.ret, upd.task_id, field, value)} :
     /\ IF l.err # NoErr
        THEN /\ fs' = l.fs
             /\ last' = Op(field, <<>>, l.err, <<>>)
             /\ pc' = "crashed"
             /\ UNCHANGED <<saved, calls>>
        ELSE /\ fs' = u.fs
             /\ last' = Op(field, u.tasks, u.err, l.ret)
             /\ pc' = After(u.err, "main")
             /\ calls' = calls + u.saves
             /\ UNCHANGED saved
     /\ upd' = NoUpd

\* update_task_status after the id: the choice prompt loops until 1 or 2.
update_task_status ==
  /\ pc = "ask_value" /\ upd.kind = "status"
  /\ \E status_choice \in StatusInputs :
       IF status_choice \notin {"1", "2"}
       THEN /\ upd' = [upd EXCEPT !.round = 1 - @]
            /\ UNCHANGED <<fs, last, saved, calls, pc>>
       ELSE apply_update("status",
                         IF status_choice = "1" THEN "in progress" ELSE "done")
  /\ UNCHANGED <<variant, ENCRYPTION_KEY, clock>>

\* update_task_title after the id: an empty title returns to the menu.
update_task_title ==
  /\ pc = "ask_value" /\ upd.kind = "title"
  /\ \E new_title \in TitleInputs :
       IF new_title = ""
       THEN /\ pc' = "main"
            /\ upd' = NoUpd
            /\ UNCHANGED <<fs, last, saved, calls>>
       ELSE apply_update("title", new_title)
  /\ UNCHANGED <<variant, ENCRYPTION_KEY, clock>>

\* update_task_description after the id: an empty description returns.
update_task_description ==
  /\ pc = "ask_value" /\ upd.kind = "description"
  /\ \E new_description \in DescriptionInputs :
       IF new_description = ""
       THEN /\ pc' = "main"
            /\ upd' = NoUpd
            /\ UNCHANGED <<fs, last, saved, calls>>
       ELSE apply_update("description", new_description)
  /\ UNCHANGED <<variant, ENCRYPTION_KEY, clock>>

\* main, choice 5: leave the loop.
main_exit ==
  /\ pc = "choice"
  /\ pc' = "exited"
  /\ UNCHANGED <<variant, ENCRYPTION_KEY, fs, clock, last, saved, calls, upd>>

\* main, any other choice: a warning, and the loop starts over.
main_invalid ==
  /\ pc = "choice"
  /\ pc' = "main"
  /\ UNCHANGED <<variant, ENCRYPTION_KEY, fs, clock, last, saved, calls, upd>>

\* The program is started again after it exited or ended in a traceback.
Restart ==
  /\ pc \in {"exited", "crashed"}
  /\ pc' = "main"
  /\ UNCHANGED <<variant, ENCRYPTION_KEY, fs, clock, last, saved, calls, upd>>

NextCli ==
  \/ display_tasks \/ add_task \/ get_valid_task_id \/ prompt_task_id
  \/ update_task_status \/ update_task_title \/ update_task_description
  \/ main_exit \/ main_invalid \/ Restart \/ Tick

SpecCli == InitCli /\ [][NextCli]_vars

\* The menu with a user who answers every prompt: input() returns a line and
\* the function that asked handles it. Which line the user enters is left
\* open.
SpecCliLive ==
  /\ SpecCli
  /\ WF_vars(prompt_task_id)
  /\ WF_vars(update_task_status)
  /\ WF_vars(update_task_title)
  /\ WF_vars(update_task_description)

\* ---------------------------------------------------------------- claims
\* The key source is configured: the environment binding is set, or the
\* variant keeps its key in a file it generates itself.
KeyAvailable == EnvBacked => ENCRYPTION_KEY # ""

\* C2: save_tasks(C) followed by load_tasks() returns exactly C, in every
\* variant, after any preceding sequence of Loads and Saves, when the key is
\* available and unchanged and nothing else touches the files.
C2_SaveLoadRoundTrip ==
  [][(KeyAvailable /\ last.op = "save" /\ last'.op = "load")
       => (last'.err = NoErr /\ last'.ret = last.arg)]_vars

\* C3: in the environment-key variant with ENCRYPTION_KEY absent, no key is
\* generated and every Load and every Save raises the configuration error
\* (load_key's ValueError), whatever earlier failed operations left on disk.
C3_MissingKeySurfaces ==
  (EnvBacked /\ ENCRYPTION_KEY = "")
    => /\ fs.KEY_FILE = Absent
       /\ last.op \in {"load", "save"} => last.err = "ValueError"

\* C5: archival policy: after N successive Saves (key available) backups/
\* holds N distinct snapshot files, whatever the timing of the Saves.
C5_ArchiveOnePerSave ==
  (EnvBacked /\ KeyAvailable) => Cardinality(fs.BACKUPS) = Len(saved)

\* C6: rolling policy: after N >= 2 Saves tasks.json.bak holds exactly the
\* bytes Save N-1 wrote to the store, and a Load never changes the backup.
C6_RollingBackup ==
  /\ []((~EnvBacked /\ Len(saved) >= 2) => fs.BAK = saved[Len(saved) - 1])
  /\ [][(~EnvBacked /\ last'.op = "load") => fs'.BAK = fs.BAK]_vars

\* C6 witness: a rolling variant after two Saves and a following Load, the
\* backup holding the first Save's bytes, which differ from the store's.
C6_Witness ==
  /\ ~EnvBacked /\ Len(saved) = 2 /\ last.op = "load"
  /\ fs.BAK = saved[1] /\ fs.BAK # fs.FILE /\ fs.FILE = saved[2]

\* C7: in every variant, save_tasks called while tasks.json is absent (key
\* available) skips the snapshot without error and goes on to write the store.
C7_BackupNoOpWhenAbsent ==
  [][(KeyAvailable /\ last'.op = "save" /\ fs.FILE = Absent)
       => (last'.err = NoErr /\ fs'.FILE.kind = "fernet"
           /\ fs'.BAK = fs.BAK /\ fs'.BACKUPS = fs.BACKUPS)]_vars

\* C9: verify_integrity(P) is TRUE when no hash file exists and otherwise
\* exactly when the stored digest equals calculate_hash(P); after a completed
\* save_tasks(C) the stored digest is the hash of the plaintext encrypted into
\* the store, so verifying the untouched store succeeds.
C9_IntegrityVerification ==
  EnvBacked =>
    /\ \A C \in Collections :
         verify_integrity(fs, json_dumps(C))
           <=> (fs.HASH_FILE = Absent
                \/ fs.HASH_FILE = calculate_hash(json_dumps(C)))
    /\ (last.op = "save" /\ last.err = NoErr) =>
         LET d == decrypt_data(fs, fs.FILE) IN
         /\ d.err = NoErr
         /\ d.out = json_dumps(last.arg)
         /\ fs.HASH_FILE = calculate_hash(d.out)
         /\ verify_integrity(fs, d.out)

\* C9 witness: a completed Save of a non-empty collection in TaskManager.py,
\* with the hash file written.
C9_Witness ==
  /\ EnvBacked /\ last.op = "save" /\ last.err = NoErr
  /\ last.arg # <<>> /\ fs.HASH_FILE # Absent

C4_FailedSaveKeepsStore ==
  [][(fs.FILE # Absent /\ last'.op = "save" /\ last'.err # NoErr)
       => (fs'.FILE = fs.FILE
           /\ load_tasks(fs').ret = load_tasks(fs).ret)]_vars

\* C2 restricted to Saves that complete: the Load that follows returns C.
C2_RoundTripWhenSaved ==
  [][(last.op = "save" /\ last.err = NoErr /\ last'.op = "load")
       => (last'.err = NoErr /\ last'.ret = last.arg)]_vars

\* C8: add_task on a loaded collection of size k appends a task with id k+1
\* and status "not done"; after any sequence of adds and updates from no
\* store file the persisted collection of size n has the ids 1..n in order.
C8_IdAssignment ==
  /\ [](\A i \in 1..Len(Persisted(fs)) : Persisted(fs)[i].id = i)
  /\ [][(last'.op = "add" /\ last'.err = NoErr)
          => LET k == Len(last'.ret)
                 new == Persisted(fs')
             IN /\ Len(new) = k + 1
                /\ SubSeq(new, 1, k) = last'.ret
                /\ new[k + 1].id = k + 1
                /\ new[k + 1].status = "not done"]_vars

\* C8 witness: two tasks persisted, and the last operation an update that
\* completed.
C8_Witness ==
  /\ Len(Persisted(fs)) = 2
  /\ last.op \in {"status", "title", "description"} /\ last.err = NoErr
  /\ Persisted(fs)[1].id # Persisted(fs)[2].id

\* C10: the first Load creates the absent store as an encrypted empty array
\* and returns the empty collection; afterwards, under the menu's operations,
\* the store never becomes absent and the number of persisted tasks never
\* decreases.
C10_StoreLifecycle ==
  [][/\ (fs.FILE = Absent /\ last'.op = "display")
          => /\ last'.err = NoErr /\ last'.ret = <<>>
             /\ fs'.FILE.kind = "fernet"
             /\ fs'.FILE.pt = json_dumps(<<>>)
     /\ fs.FILE # Absent
          => /\ fs'.FILE # Absent
             /\ Len(Persisted(fs')) >= Len(Persisted(fs))]_vars

\* C10 restricted to a configured key source: the same lifecycle.
C10_LifecycleWithKey ==
  [][KeyAvailable =>
       /\ (fs.FILE = Absent /\ last'.op = "display")
            => /\ last'.err = NoErr /\ last'.ret = <<>>
               /\ fs'.FILE.kind = "fernet"
               /\ fs'.FILE.pt = json_dumps(<<>>)
       /\ fs.FILE # Absent
            => /\ fs'.FILE # Absent
               /\ Len(Persisted(fs')) >= Len(Persisted(fs))]_vars

\* The store decrypts with the current key but its plaintext's digest is not
\* the one in the hash file.
IntegrityMismatch ==
  /\ EnvBacked
  /\ fs.FILE.kind = "fernet"
  /\ decrypt_data(fs, fs.FILE).err = NoErr
  /\ fs.HASH_FILE # Absent
  /\ fs.HASH_FILE # calculate_hash(decrypt_data(fs, fs.FILE).out)

\* C11: in TaskManager.py, a Load of a store that decrypts but whose
\* plaintext hash differs from the stored digest returns the empty collection
\* without raising, and leaves the store file, the hash file and all backups
\* as they were.
C11_MismatchReturnsEmpty ==
  [][(IntegrityMismatch /\ last'.op = "load")
       => /\ last'.err = NoErr /\ last'.ret = <<>>
          /\ fs'.FILE = fs.FILE
          /\ fs'.HASH_FILE = fs.HASH_FILE
          /\ fs'.BACKUPS = fs.BACKUPS
          /\ fs'.BAK = fs.BAK]_vars

\* C11 witness: a Load returned the empty collection from a store that holds
\* a non-empty collection under a stale digest, with a snapshot on disk.
C11_Witness ==
  /\ IntegrityMismatch
  /\ last.op = "load" /\ last.err = NoErr /\ last.ret = <<>>
  /\ Persisted(fs) # <<>>
  /\ fs.BACKUPS # {}

\* The fields of a task.
Fields == {"id", "title", "description", "status"}

\* C12, safety part 1: get_valid_task_id returns only an id present in the
\* collection it loaded when called; every other input prompts again.
C12_ReturnsPresentId ==
  [][pc = "ask_id"
       => \/ /\ pc' = "ask_id" /\ upd'.task_id = 0 /\ upd'.tasks = upd.tasks
          \/ /\ pc' = "ask_value" /\ upd'.tasks = upd.tasks
             /\ \E i \in 1..Len(upd.tasks) :
                  upd.tasks[i].id = upd'.task_id]_vars

\* C12, safety part 2: an update that returns to the menu leaves the
\* persisted collection as it was except for the named field of the one task
\* with the chosen id, and what it saved is what is persisted.
C12_ChangesOnlyNamedField ==
  [][(pc = "ask_value" /\ pc' # "ask_value")
       => LET old == Persisted(fs)
              new == Persisted(fs')
          IN /\ pc' = "main"
             /\ Cardinality({i \in 1..Len(old) : old[i].id = upd.task_id}) = 1
             /\ Len(new) = Len(old)
             /\ \A i \in 1..Len(old) :
                  \A g \in Fields :
                    (old[i].id # upd.task_id \/ g # upd.kind)
                      => new[i][g] = old[i][g]
             /\ last'.op = upd.kind
                  => (last'.err = NoErr /\ new = last'.arg)]_vars

\* C12 as stated: a valid id is returned only as above, and once the user
\* has entered one, each of the three updates returns to the menu, changing
\* only the named field of that task.
C12_UpdateReturnsAfterValidId ==
  /\ C12_ReturnsPresentId
  /\ C12_ChangesOnlyNamedField
  /\ (pc = "ask_value") ~> (pc = "main")

\* C12 amended: after a valid id the title and description updates return
\* to the menu on the next line entered; the status update prompts again on
\* every line other than 1 or 2 and returns only after one of them, with
\* the task's status set accordingly.
C12_UpdateReturnsAfterValidInputs ==
  /\ C12_ReturnsPresentId
  /\ C12_ChangesOnlyNamedField
  /\ (pc = "ask_value" /\ upd.kind # "status") ~> (pc = "main")
  /\ [][(pc = "ask_value" /\ upd.kind = "status")
          => \/ pc' = "ask_value" /\ fs' = fs /\ upd'.task_id = upd.task_id
             \/ /\ pc' = "main" /\ last'.op = "status"
                /\ \E i \in 1..Len(Persisted(fs')) :
                     /\ Persisted(fs')[i].id = upd.task_id
                     /\ Persisted(fs')[i].status
                          \in {"in progress", "done"}]_vars

\* C12 witness: back at the menu after a status update of task 2 of two,
\* the first task still as it was added.
C12_Witness ==
  /\ pc = "main" /\ last.op = "status" /\ last.err = NoErr
  /\ Len(Persisted(fs)) = 2 /\ Len(last.ret) = 2
  /\ last.ret[2].status = "not done"
  /\ Persisted(fs)[2].status = "done"
  /\ Persisted(fs)[1] = last.ret[1]
  /\ Persisted(fs)[1].status = "not done"

====
